---- MODULE Spec2Model ----
(***************************************************************************)
(* The Linux method-channel endpoint of the cozy_data plugin               *)
(* (linux/cozy_data_plugin.cc): registration of the "cozy_data" channel    *)
(* handler with the plugin registrar, dispatch of an incoming method call  *)
(* by name, the platform version query, and the plugin object's reference  *)
(* count.                                                                  *)
(*                                                                         *)
(* C strings are sequences of character codes without the terminating NUL; *)
(* a character array is a sequence of fixed length padded with NULs.       *)
(***************************************************************************)
EXTENDS Integers, Sequences, FiniteSets, TLC

VARIABLES
    host,       \* what the kernel reports through uname(2)
    alive,      \* the registrar's messenger has not been disposed
    handlers,   \* the messenger's handler table: channel name -> registration
    plugins,    \* the CozyDataPlugin objects ever allocated, by index
    created,    \* the plugin allocated by the latest registration (0: none)
    calls,      \* the method calls issued so far, by index
    pc,         \* position of the platform thread
    cur,        \* the method call the handler is running for (0: none)
    response    \* the handler's local variable `response`

vars == <<host, alive, handlers, plugins, created, calls, pc, cur, response>>

----------------------------------------------------------------------------
(* Bounds *)

MaxCalls == 2
MaxPlugins == 1

----------------------------------------------------------------------------
(* Strings and values *)

\* "getPlatformVersion"
kGetPlatformVersion ==
    <<103, 101, 116, 80, 108, 97, 116, 102, 111, 114, 109, 86, 101, 114, 115, 105, 111, 110>>
\* "Linux ", the literal part of the format "Linux %s"
kLinuxPrefix == <<76, 105, 110, 117, 120, 32>>

kChannelNameTypo == "cozy_dat"
kChannelName == "cozy_data"

\* sizeof of each member of struct utsname (glibc _UTSNAME_LENGTH)
UTSNAME_LENGTH == 65

\* Names the calling side may send.
NamePing == <<112, 105, 110, 103>>                                \* "ping"
NameLowerCase ==                                                  \* "getplatformversion"
    <<103, 101, 116, 112, 108, 97, 116, 102, 111, 114, 109, 118, 101, 114, 115, 105, 111, 110>>
NamePrefix == SubSeq(kGetPlatformVersion, 1, Len(kGetPlatformVersion) - 1)
NameExtension == kGetPlatformVersion \o <<50>>                    \* "getPlatformVersion2"
MethodNames ==
    {kGetPlatformVersion, <<>>, NamePing, NameLowerCase, NamePrefix, NameExtension}

\* FlValue
NullValue == [type |-> "null", value |-> <<>>]
fl_value_new_string(s) == [type |-> "string", value |-> s]
ArgValues == {NullValue, fl_value_new_string(<<120>>)}

\* Hosts: the release and version members uname(2) fills in.
Version_5_15 == <<53, 46, 49, 53, 46, 48, 45, 103, 101, 110, 101, 114, 105, 99>>  \* "5.15.0-generic"
Release_6_1 == <<54, 46, 49, 46, 48>>                                             \* "6.1.0"
Hosts ==
    { [release |-> Release_6_1, version |-> Version_5_15],
      [release |-> Release_6_1, version |-> <<>>] }

----------------------------------------------------------------------------
(* libc *)

CharAt(s, i) == IF i <= Len(s) THEN s[i] ELSE 0

RECURSIVE strcmp_from(_, _, _)
strcmp_from(a, b, i) ==
    LET ca == CharAt(a, i)
        cb == CharAt(b, i)
    IN  IF ca # cb THEN ca - cb
        ELSE IF ca = 0 THEN 0
        ELSE strcmp_from(a, b, i + 1)

\* compares only the first strlen(a) characters of a non-empty a
strcmp_prefix(a, b) ==
    IF Len(a) > 0 /\ Len(a) <= Len(b) /\ SubSeq(b, 1, Len(a)) = a THEN 0
    ELSE strcmp_from(a, b, 1)

strcmp(a, b) == strcmp_from(a, b, 1)

\* A char[n] holding s: truncated to n - 1 characters, NUL padded.
CharArray(s, n) == [i \in 1..n |-> IF i <= Len(s) /\ i < n THEN s[i] ELSE 0]

\* The C string an array holds: the characters before the first NUL.
RECURSIVE CStringFrom(_, _)
CStringFrom(buf, i) ==
    IF i > Len(buf) \/ buf[i] = 0 THEN <<>>
    ELSE <<buf[i]>> \o CStringFrom(buf, i + 1)
CString(buf) == CStringFrom(buf, 1)

\* struct utsname uname_data = {};
ZeroUtsname ==
    [release |-> CharArray(<<>>, UTSNAME_LENGTH), version |-> CharArray(<<>>, UTSNAME_LENGTH)]

\* uname(&buf): on success fills the members in, on failure leaves buf alone.
uname(buf, ok) ==
    IF ok
    THEN [release |-> CharArray(host.release, UTSNAME_LENGTH),
          version |-> CharArray(host.version, UTSNAME_LENGTH)]
    ELSE buf

\* g_strdup_printf("Linux %s", arg)
g_strdup_printf_Linux(arg) == kLinuxPrefix \o CString(arg)

----------------------------------------------------------------------------
(* Method responses *)

fl_method_success_response_new(result) == [kind |-> "success", result |-> result]
fl_method_not_implemented_response_new == [kind |-> "not_implemented", result |-> NullValue]
fl_method_error_response_new == [kind |-> "error", result |-> NullValue]
NoResponse == [kind |-> "nullptr", result |-> NullValue]

\* uses the release member
get_platform_version_release(uname_ok) ==
    LET uname_data == uname(ZeroUtsname, uname_ok)
    IN  fl_method_success_response_new(
            fl_value_new_string(g_strdup_printf_Linux(uname_data.release)))

\* reports a failed or empty query as an error
get_platform_version_checked(uname_ok) ==
    LET uname_data == uname(ZeroUtsname, uname_ok)
        version == g_strdup_printf_Linux(uname_data.version)
    IN  IF ~uname_ok \/ CString(uname_data.version) = <<>>
        THEN fl_method_error_response_new
        ELSE fl_method_success_response_new(fl_value_new_string(version))

get_platform_version(uname_ok) ==
    LET uname_data == uname(ZeroUtsname, uname_ok)
        version == g_strdup_printf_Linux(uname_data.version)
        result == fl_value_new_string(version)
    IN  fl_method_success_response_new(result)

\* rejects a call that carries arguments
dispatch_checks_args(method_call, uname_ok) ==
    IF method_call.args # NullValue THEN fl_method_error_response_new
    ELSE IF strcmp(method_call.name, kGetPlatformVersion) = 0
    THEN get_platform_version(uname_ok)
    ELSE fl_method_not_implemented_response_new

\* The branch of cozy_data_plugin_handle_method_call that chooses the response.
dispatch(method_call, uname_ok) ==
    IF strcmp(method_call.name, kGetPlatformVersion) = 0
    THEN get_platform_version(uname_ok)
    ELSE fl_method_not_implemented_response_new

----------------------------------------------------------------------------
(* GObject reference counting *)

\* struct _CozyDataPlugin { GObject parent_instance; }: no members of its own
NewPlugin == [ref_count |-> 1, fields |-> <<>>, disposed |-> 0]

g_object_new(objs) == Append(objs, NewPlugin)

g_object_ref(objs, p) == [objs EXCEPT ![p].ref_count = @ + 1]

\* Dropping the last reference runs cozy_data_plugin_dispose, which chains to
\* the parent class; an object without references is left alone.
g_object_unref(objs, p) ==
    IF objs[p].ref_count = 0 THEN objs
    ELSE IF objs[p].ref_count = 1
    THEN [objs EXCEPT ![p].ref_count = 0, ![p].disposed = @ + 1]
    ELSE [objs EXCEPT ![p].ref_count = @ - 1]

----------------------------------------------------------------------------
(* The messenger's handler table *)

\* Channel names in use on the messenger.
ChannelNames == {"cozy_data", "cozy_dat"}
CallChannels == {"cozy_data"}

NoHandler == [cb |-> "none", user_data |-> 0, destroy_notify |-> "none", channel_refs |-> 0]

\* Removing a registration runs its destroy notification on its user data.
DestroyHandler(objs, h) ==
    IF h.destroy_notify = "g_object_unref" /\ h.user_data # 0
    THEN g_object_unref(objs, h.user_data)
    ELSE objs

RECURSIVE DestroyAll(_, _)
DestroyAll(objs, names) ==
    IF names = {} THEN objs
    ELSE LET n == CHOOSE x \in names : TRUE
         IN  DestroyAll(DestroyHandler(objs, handlers[n]), names \ {n})

----------------------------------------------------------------------------
(* Method calls *)

NewCall(name, args, channel) ==
    [name |-> name, args |-> args, channel |-> channel, stage |-> "queued",
     self |-> 0, uname_ok |-> FALSE, sent |-> <<>>]

Queued == {i \in 1..Len(calls) : calls[i].stage = "queued"}
Min(S) == CHOOSE x \in S : \A y \in S : x <= y

----------------------------------------------------------------------------
Init ==
    /\ host \in Hosts
    /\ alive = TRUE
    /\ handlers = [n \in ChannelNames |-> NoHandler]
    /\ plugins = <<>>
    /\ created = 0
    /\ calls = <<>>
    /\ pc = "idle"
    /\ cur = 0
    /\ response = NoResponse

\* The calling side invokes a method on the channel; the framework queues it.
IssueCall ==
    /\ alive
    /\ Len(calls) < MaxCalls
    /\ \E name \in MethodNames, args \in ArgValues, channel \in CallChannels :
          calls' = Append(calls, NewCall(name, args, channel))
    /\ UNCHANGED <<host, alive, handlers, plugins, created, pc, cur, response>>

\* the handler does not take its own reference on the plugin
register_without_ref ==
    /\ pc = "idle"
    /\ alive
    /\ Len(plugins) < MaxPlugins
    /\ LET p == Len(plugins) + 1
           objs1 == g_object_new(plugins)
           objs2 == DestroyHandler(objs1, handlers[kChannelName])
           objs3 == g_object_unref(objs2, p)
       IN  /\ plugins' = objs3
           /\ created' = p
           /\ handlers' = [handlers EXCEPT ![kChannelName] =
                  [cb |-> "method_call_cb", user_data |-> p,
                   destroy_notify |-> "g_object_unref", channel_refs |-> 1]]
    /\ UNCHANGED <<host, alive, calls, pc, cur, response>>

\* cozy_data_plugin_register_with_registrar
cozy_data_plugin_register_with_registrar ==
    /\ pc = "idle"
    /\ alive
    /\ Len(plugins) < MaxPlugins
    /\ LET p == Len(plugins) + 1
           \* plugin = g_object_new(cozy_data_plugin_get_type(), nullptr)
           objs1 == g_object_new(plugins)
           \* fl_method_channel_new(messenger, "cozy_data", codec): the channel
           \* (one reference here, one held by the messenger) takes the place
           \* of a channel registered under the name before
           objs2 == DestroyHandler(objs1, handlers[kChannelName])
           chan1 == [NoHandler EXCEPT !.channel_refs = 2]
           \* fl_method_channel_set_method_call_handler(channel, method_call_cb,
           \*     g_object_ref(plugin), g_object_unref)
           objs3 == g_object_ref(objs2, p)
           chan2 == [chan1 EXCEPT !.cb = "method_call_cb", !.user_data = p,
                                  !.destroy_notify = "g_object_unref"]
           \* g_object_unref(plugin)
           objs4 == g_object_unref(objs3, p)
           \* g_autoptr(FlMethodChannel) channel goes out of scope
           chan3 == [chan2 EXCEPT !.channel_refs = @ - 1]
       IN  /\ plugins' = objs4
           /\ created' = p
           /\ handlers' = [handlers EXCEPT ![kChannelName] = chan3]
    /\ UNCHANGED <<host, alive, calls, pc, cur, response>>

\* The framework takes the oldest queued call and invokes the callback
\* registered on the call's channel with the registration's user data; a call
\* on a channel without a handler is answered by the framework itself.
method_call_cb ==
    /\ pc = "idle"
    /\ alive
    /\ Queued # {}
    /\ LET id == Min(Queued)
           h == handlers[calls[id].channel]
       IN  IF h.cb = "method_call_cb"
           THEN \* plugin = COZY_DATA_PLUGIN(user_data);
                \* cozy_data_plugin_handle_method_call(plugin, method_call);
                /\ calls' = [calls EXCEPT ![id].stage = "entered",
                                          ![id].self = h.user_data]
                /\ pc' = "L27"
                /\ cur' = id
           ELSE /\ calls' = [calls EXCEPT ![id].stage = "unhandled"]
                /\ UNCHANGED <<pc, cur>>
    /\ UNCHANGED <<host, alive, handlers, plugins, created, response>>

\* keeps the first response in the plugin object and answers later calls with it
handle_method_call_dispatch_cached ==
    /\ pc = "L27"
    /\ LET method == calls[cur].name
           self == calls[cur].self
       IN  \E uname_ok \in
               IF strcmp(method, kGetPlatformVersion) = 0 THEN BOOLEAN ELSE {FALSE} :
             /\ response' = IF self # 0 /\ plugins[self].fields # <<>>
                            THEN plugins[self].fields[1]
                            ELSE dispatch(calls[cur], uname_ok)
             /\ plugins' = IF self # 0 /\ plugins[self].fields = <<>>
                           THEN [plugins EXCEPT ![self].fields =
                                    <<dispatch(calls[cur], uname_ok)>>]
                           ELSE plugins
             /\ calls' = [calls EXCEPT ![cur].uname_ok = uname_ok]
    /\ pc' = "L35"
    /\ UNCHANGED <<host, alive, handlers, created, cur>>

\* cozy_data_plugin_handle_method_call, up to the assignment of `response`:
\* uname is called only on the getPlatformVersion branch and may fail.
handle_method_call_dispatch ==
    /\ pc = "L27"
    /\ LET method == calls[cur].name      \* fl_method_call_get_name(method_call)
       IN  \E uname_ok \in
               IF strcmp(method, kGetPlatformVersion) = 0 THEN BOOLEAN ELSE {FALSE} :
             /\ response' = dispatch(calls[cur], uname_ok)
             /\ calls' = [calls EXCEPT ![cur].uname_ok = uname_ok]
    /\ pc' = "L35"
    /\ UNCHANGED <<host, alive, handlers, plugins, created, cur>>

\* fl_method_call_respond(call, response, nullptr): the send may fail, and the
\* handler does not look at the outcome.
fl_method_call_respond(id, resp) ==
    \E ok \in BOOLEAN :
        calls' = [calls EXCEPT ![id].sent = Append(@, [response |-> resp, ok |-> ok])]

\* hands the response to an idle callback that sends it after the handler returned
handle_method_call_respond_deferred ==
    \/ /\ pc = "L35"
       /\ pc' = "L36"
       /\ UNCHANGED <<host, alive, handlers, plugins, created, calls, cur, response>>
    \/ /\ pc = "idle"
       /\ \E id \in 1..Len(calls) :
             /\ calls[id].stage = "returned"
             /\ calls[id].sent = <<>>
             /\ fl_method_call_respond(id, dispatch(calls[id], calls[id].uname_ok))
       /\ UNCHANGED <<host, alive, handlers, plugins, created, pc, cur, response>>

\* responds on every branch and once more after the branch
handle_method_call_respond_twice ==
    /\ pc = "L35"
    /\ \E ok1 \in BOOLEAN, ok2 \in BOOLEAN :
          calls' = [calls EXCEPT ![cur].sent =
                       @ \o <<[response |-> response, ok |-> ok1],
                              [response |-> response, ok |-> ok2]>>]
    /\ pc' = "L36"
    /\ UNCHANGED <<host, alive, handlers, plugins, created, cur, response>>

\* responds to the oldest call still waiting instead of its own
handle_method_call_respond_other ==
    /\ pc = "L35"
    /\ fl_method_call_respond(IF Queued # {} THEN Min(Queued) ELSE cur, response)
    /\ pc' = "L36"
    /\ UNCHANGED <<host, alive, handlers, plugins, created, cur, response>>

\* cozy_data_plugin_handle_method_call, the call of fl_method_call_respond
handle_method_call_respond ==
    /\ pc = "L35"
    /\ fl_method_call_respond(cur, response)
    /\ pc' = "L36"
    /\ UNCHANGED <<host, alive, handlers, plugins, created, cur, response>>

\* cozy_data_plugin_handle_method_call and method_call_cb return: the
\* g_autoptr releases `response`, control goes back to the framework.
handle_method_call_return ==
    /\ pc = "L36"
    /\ calls' = [calls EXCEPT ![cur].stage = "returned"]
    /\ response' = NoResponse
    /\ cur' = 0
    /\ pc' = "idle"
    /\ UNCHANGED <<host, alive, handlers, plugins, created>>

\* The messenger is disposed: every registration is removed and its destroy
\* notification (g_object_unref for this plugin) runs.
MessengerDispose ==
    /\ pc = "idle"
    /\ alive
    /\ alive' = FALSE
    /\ plugins' = DestroyAll(plugins, ChannelNames)
    /\ handlers' = [n \in ChannelNames |-> NoHandler]
    /\ UNCHANGED <<host, created, calls, pc, cur, response>>

Next ==
    \/ IssueCall
    \/ cozy_data_plugin_register_with_registrar
    \/ method_call_cb
    \/ handle_method_call_dispatch
    \/ handle_method_call_respond
    \/ handle_method_call_return
    \/ MessengerDispose

Spec == Init /\ [][Next]_vars

----------------------------------------------------------------------------
(* Properties *)

CallIds == 1..Len(calls)
Returned(i) == calls[i].stage = "returned"
Delivered(i) == calls[i].stage \in {"entered", "returned"}
Responses(i) == {calls[i].sent[k].response : k \in 1..Len(calls[i].sent)}

LitGetPlatformVersion ==
    <<103, 101, 116, 80, 108, 97, 116, 102, 111, 114, 109, 86, 101, 114, 115, 105, 111, 110>>
LitLinux == <<76, 105, 110, 117, 120, 32>>
LitLinux_5_15 ==          \* "Linux 5.15.0-generic"
    <<76, 105, 110, 117, 120, 32, 53, 46, 49, 53, 46, 48, 45, 103, 101, 110, 101, 114, 105, 99>>
LitNotImplemented == [kind |-> "not_implemented", result |-> [type |-> "null", value |-> <<>>]]
LitSuccess(s) == [kind |-> "success", result |-> [type |-> "string", value |-> s]]

\* C1: a call whose method name is not exactly "getPlatformVersion" (the empty
\* name, "ping", another letter case, a proper prefix, an extension) is
\* answered with NotImplemented without a payload, never with Success.
C1_OtherNamesNotImplemented ==
    \A i \in CallIds :
        calls[i].name # LitGetPlatformVersion =>
            /\ Responses(i) \subseteq {LitNotImplemented}
            /\ Returned(i) => Responses(i) = {LitNotImplemented}
            /\ (cur = i /\ pc \in {"L35", "L36"}) => response = LitNotImplemented

C1_Witness ==
    \E i, j \in CallIds :
        /\ calls[i].name = NamePrefix /\ Returned(i)
        /\ Responses(i) = {LitNotImplemented}
        /\ calls[j].name = NameLowerCase /\ Returned(j)
        /\ Responses(j) = {LitNotImplemented}

\* C2: a "getPlatformVersion" call for which uname reported the host's data is
\* answered with Success("Linux " followed by the reported version member);
\* when that member is "5.15.0-generic" the payload is "Linux 5.15.0-generic".
C2_SuccessLinuxVersion ==
    \A i \in CallIds :
        (calls[i].name = LitGetPlatformVersion /\ calls[i].uname_ok) =>
            /\ Responses(i) \subseteq {LitSuccess(LitLinux \o host.version)}
            /\ host.version = Version_5_15 =>
                   Responses(i) \subseteq {LitSuccess(LitLinux_5_15)}
            /\ Returned(i) => Responses(i) # {}

C2_Witness ==
    \E i \in CallIds :
        /\ calls[i].name = LitGetPlatformVersion
        /\ calls[i].uname_ok
        /\ Returned(i)
        /\ host.version = Version_5_15
        /\ host.release # host.version
        /\ Responses(i) = {LitSuccess(LitLinux_5_15)}

\* C3: every call delivered to the handler gets exactly one response: at most
\* one at any time, and exactly one once the handler has returned, whether or
\* not the send reported success.
C3_ExactlyOneResponse ==
    \A i \in CallIds :
        Delivered(i) =>
            /\ Len(calls[i].sent) <= 1
            /\ Returned(i) => Len(calls[i].sent) = 1
            /\ (cur = i /\ pc = "L36") => Len(calls[i].sent) = 1
            /\ (cur = i /\ pc \in {"L27", "L35"}) => Len(calls[i].sent) = 0

C3_Witness ==
    \E i, j \in CallIds :
        /\ Returned(i) /\ Len(calls[i].sent) = 1 /\ ~calls[i].sent[1].ok
        /\ Returned(j) /\ Len(calls[j].sent) = 1 /\ calls[j].sent[1].ok

\* The response a call's own method name determines.
OwnResponse(i) ==
    IF calls[i].name = LitGetPlatformVersion
    THEN LitSuccess(LitLinux \o (IF calls[i].uname_ok THEN host.version ELSE <<>>))
    ELSE LitNotImplemented

\* C4: of two calls issued back to back each gets one response, the one its
\* own method name determines; a call the handler is not running for gets
\* none, and no call gets the response of the other.
C4_ResponsesNotSwapped ==
    \A i \in CallIds :
        /\ ~Delivered(i) => calls[i].sent = <<>>
        /\ Responses(i) \subseteq {OwnResponse(i)}
        /\ Returned(i) => /\ Len(calls[i].sent) = 1
                          /\ calls[i].sent[1].response = OwnResponse(i)

C4_Witness ==
    /\ Len(calls) >= 2
    /\ Returned(1) /\ Returned(2)
    /\ calls[1].name = NamePing /\ calls[2].name = LitGetPlatformVersion
    /\ calls[1].sent = <<[response |-> LitNotImplemented, ok |-> TRUE]>>
    /\ Len(calls[2].sent) = 1
    /\ calls[2].sent[1].response.kind = "success"

\* C5: dispatch keeps no state: no step of the handler changes the plugin
\* objects, and any two calls with the same method name and the same uname
\* report get the same response, whatever calls came before them.
C5_SameResponses ==
    \A i, j \in CallIds :
        (calls[i].name = calls[j].name /\ calls[i].uname_ok = calls[j].uname_ok) =>
            \A r \in Responses(i), q \in Responses(j) : r = q

C5_Stateless ==
    [][ /\ (pc # "idle" => plugins' = plugins)
        /\ C5_SameResponses' ]_vars

C5_Witness ==
    /\ Len(calls) >= 2
    /\ Returned(1) /\ Returned(2)
    /\ calls[1].name = LitGetPlatformVersion /\ calls[2].name = LitGetPlatformVersion
    /\ calls[1].uname_ok /\ calls[2].uname_ok
    /\ host.version # <<>>
    /\ Responses(1) = Responses(2)
    /\ Responses(1) # {}
    /\ calls[1].self # 0
    /\ plugins[calls[1].self] = NewPlugin

\* C6: when uname fails or reports an empty version, "getPlatformVersion" is
\* still answered once with Success carrying the string "Linux "; never with
\* an error, NotImplemented or a second attempt.
C6_FailedQueryStillSuccess ==
    \A i \in CallIds :
        (/\ calls[i].name = LitGetPlatformVersion
         /\ (~calls[i].uname_ok \/ host.version = <<>>)) =>
            /\ Responses(i) \subseteq {LitSuccess(LitLinux)}
            /\ Len(calls[i].sent) <= 1
            /\ Returned(i) => Responses(i) = {LitSuccess(LitLinux)}

C6_Witness ==
    \E i \in CallIds :
        /\ calls[i].name = LitGetPlatformVersion
        /\ ~calls[i].uname_ok
        /\ host.version # <<>>
        /\ Returned(i)
        /\ Responses(i) = {LitSuccess(LitLinux)}

\* C7: the response kind depends on the method name only, not on the argument
\* payload, and a response is Success(string) or NotImplemented, never an error.
C7_KindDependsOnNameOnly ==
    /\ \A i, j \in CallIds :
          calls[i].name = calls[j].name =>
              \A r \in Responses(i), q \in Responses(j) : r.kind = q.kind
    /\ \A i \in CallIds : \A r \in Responses(i) :
          \/ r.kind = "success" /\ r.result.type = "string"
          \/ r = LitNotImplemented

C7_Witness ==
    \E i, j \in CallIds :
        /\ calls[i].name = calls[j].name
        /\ calls[i].args = NullValue
        /\ calls[j].args # NullValue
        /\ Returned(i) /\ Returned(j)
        /\ calls[i].sent[1].response.kind = "success"
        /\ calls[j].sent[1].response.kind = "success"

\* C8: once registration has returned, the messenger has exactly one handler,
\* method_call_cb, on the channel "cozy_data", with the plugin created by the
\* registration as user data, and the handler runs with that plugin as self.
C8_OneHandlerOnCozyData ==
    /\ (created # 0 /\ alive) =>
          /\ handlers["cozy_data"].cb = "method_call_cb"
          /\ handlers["cozy_data"].user_data = created
          /\ \A n \in ChannelNames \ {"cozy_data"} : handlers[n] = NoHandler
    /\ pc # "idle" => /\ created # 0
                      /\ calls[cur].channel = "cozy_data"
                      /\ calls[cur].self = created
    /\ \A i \in CallIds : Delivered(i) => calls[i].self \in 1..created

C8_Witness ==
    /\ created # 0
    /\ handlers["cozy_data"].user_data = created
    /\ pc = "L35"
    /\ calls[cur].self = created
    /\ \E i \in CallIds : Returned(i) /\ calls[i].self = created

\* C9: the handler is synchronous: a response to a call is sent only while the
\* handler runs for that call, the handler returns only after it has responded,
\* and the handler starts for a call only when every call delivered before has
\* been responded to and returned.
C9_Synchronous ==
    [][ \A i \in CallIds :
          /\ calls'[i].sent # calls[i].sent =>
                 /\ pc = "L35" /\ cur = i /\ calls[i].stage = "entered"
                 /\ pc' # "idle" /\ cur' = i
          /\ (~Returned(i) /\ calls'[i].stage = "returned") =>
                 /\ calls[i].sent # <<>>
                 /\ cur = i
          /\ (calls[i].stage = "queued" /\ calls'[i].stage = "entered") =>
                 \A j \in CallIds \ {i} :
                     Delivered(j) => (Returned(j) /\ calls[j].sent # <<>>) ]_vars

C9_Witness ==
    /\ Len(calls) >= 2
    /\ Returned(1) /\ calls[1].sent # <<>>
    /\ calls[2].stage = "entered" /\ calls[2].sent = <<>>
    /\ pc = "L27" /\ cur = 2

\* C10: the plugin's reference count is balanced: while a handler registration
\* holds the plugin it has exactly one reference, the registration's; the count
\* is 0 only after the registration's destroy notification has run, and the
\* object is disposed exactly once, when the count reaches 0.
C10_RefCountBalanced ==
    /\ created # 0 => (alive => plugins[created].ref_count = 1)
    /\ \A n \in ChannelNames :
          handlers[n].user_data # 0 => plugins[handlers[n].user_data].ref_count = 1
    /\ \A p \in 1..Len(plugins) :
          /\ plugins[p].ref_count \in {0, 1}
          /\ plugins[p].disposed = (IF plugins[p].ref_count = 0 THEN 1 ELSE 0)
          /\ plugins[p].ref_count = 0 =>
                 \A n \in ChannelNames : handlers[n].user_data # p
          /\ plugins[p].ref_count = 1 =>
                 \E n \in ChannelNames :
                     /\ handlers[n].user_data = p
                     /\ handlers[n].destroy_notify = "g_object_unref"
    /\ pc # "idle" => plugins[calls[cur].self].ref_count = 1

C10_Witness ==
    /\ ~alive
    /\ created # 0
    /\ plugins[created].ref_count = 0
    /\ plugins[created].disposed = 1
    /\ \E i \in CallIds : Returned(i) /\ calls[i].self = created

====
